---- MODULE Spec2Model ----
(***************************************************************************)
(* The renderer: the event loop of main (src/src/main.rs) driving          *)
(* App::render, App::recreate_swapchain and App::destroy (src/src/app.rs)  *)
(* against an asynchronous GPU, and the helper functions of                *)
(* src/src/utils.rs.  The CPU side is one sequential program whose         *)
(* position is pc; the GPU completes submitted command buffers on its own. *)
(***************************************************************************)
EXTENDS Integers, Sequences, FiniteSets, TLC

\* config.rs: pub const MAX_FRAMES_IN_FLIGHT: usize = 2
MAX_FRAMES_IN_FLIGHT == 2

\* Largest number of images a swapchain is built with.
MaxImages == 3

\* config.rs: VALIDATION_ENABLED = cfg!(debug_assertions); the debug build,
\* the one in which a debug messenger exists.
VALIDATION_ENABLED == TRUE

Slots == 0 .. (MAX_FRAMES_IN_FLIGHT - 1)

ImageCounts == 1 .. MaxImages

\* vk::Fence::null()
NullFence == 0

\* Handle of the fence owned by frame slot s (data.in_flight_fences[s]).
InFlightFence(s) == s + 1

\* Frame slot owning fence handle f.
FenceSlot(f) == f - 1

\* Every swapchain-dependent object of AppData, one name per field.
SwapchainResources ==
  { "swapchain", "swapchain_image_views", "render_pass", "pipeline_layout",
    "pipeline", "depth_image", "depth_image_memory", "depth_image_view",
    "framebuffers", "uniform_buffers", "uniform_buffers_memory",
    "descriptor_pool", "descriptor_sets", "command_buffers" }

\* The objects App::create builds once: instance-level ones, the device and
\* what is created from the device outside the swapchain-dependent set.
CoreResources ==
  { "instance", "messenger", "surface", "device", "descriptor_set_layout",
    "command_pool", "index_buffer", "index_buffer_memory", "vertex_buffer",
    "vertex_buffer_memory", "in_flight_fences", "render_finished_semaphores",
    "image_available_semaphores" }

Resources == SwapchainResources \cup CoreResources

\* Window widths and heights a Resized event carries.
WindowSizes == {0, 600}

VARIABLES
  frame,                  \* App.frame
  fence_signaled,         \* signal state of data.in_flight_fences[s]
  image_available,        \* data.image_available_semaphores[s]: signaled or signal pending
  render_finished,        \* data.render_finished_semaphores[s]: signaled
  images_in_flight,       \* data.images_in_flight
  swapchain_images_len,   \* data.swapchain_images.len()
  pending,                \* command buffers submitted to the graphics queue, not complete
  alive,                  \* which Vulkan objects exist
  data_len,               \* length of each per-image list of AppData
  pc,                     \* position of the CPU inside render / recreate_swapchain
  image_index,            \* render's local image_index
  pos,                    \* position inside destroy_swapchain / the rebuild
  caller,                 \* which call site of render called recreate_swapchain
  recreate_result,        \* result of the latest recreate_swapchain call
  tick,                   \* what the current (or latest) render call has done
  destroying,             \* main's local destroying
  minimized,              \* main's local minimized
  control_flow,           \* winit's control flow: "poll" or (sticky) "exit"
  resized,                \* App.resized
  destroy_calls,          \* App::destroy has been entered "never", "once"
                          \* or "again" (more than once)
  handles,                \* how many more Errs of render the caller handles
                          \* before it unwraps one (main.rs:44 handles none)
  since_resize,           \* recreations completed since the latest non-zero
                          \* resize not yet followed by a successful present
                          \* (-1: no such resize)
  call                    \* the call of a utils.rs helper under examination

vars == << frame, fence_signaled, image_available, render_finished,
           images_in_flight, swapchain_images_len, pending, alive, data_len,
           pc,
           image_index, pos, caller, recreate_result, tick, destroying,
           minimized, control_flow, resized, destroy_calls, handles,
           since_resize, call >>

gpuVars == << fence_signaled, image_available, render_finished, pending >>

\* The locals of main's event loop, App.resized and the destroy count.
hostVars == << destroying, minimized, control_flow, resized, destroy_calls >>

\* What the frame loop and recreate_swapchain work on.
renderVars == << frame, images_in_flight, swapchain_images_len, alive,
                 data_len,
                 image_index, caller, recreate_result, tick,
                handles >>

\* The fields of AppData that hold one element per swapchain image.
PerImageLists ==
  { "swapchain_image_views", "framebuffers", "uniform_buffers",
    "uniform_buffers_memory", "descriptor_sets", "command_buffers" }

\* Record of a render call that has just been entered.
NewTick ==
  [ start_frame |-> frame, acquire |-> "none", acq_fence |-> TRUE,
    present |-> "none", recreations |-> 0, idle |-> "none", destroyed |-> 0,
    old_len |-> 0, ubo_writes |-> 0, fence_resets |-> 0, submits |-> 0,
    presents |-> 0, table_writes |-> 0, result |-> "running",
    failed |-> "none", since_resize |-> -1, acquire_signal |-> -1,
    submit_wait |-> -1, submit_signal |-> -1, present_wait |-> -1,
    ubo_bytes |-> 0, ubo_image |-> -1, command_buffer |-> -1, image |-> -1,
    built |-> {} ]

\* No helper call is under examination.
NoCall == [ fn |-> "none" ]

\* App::create: frame 0, fences created signaled, semaphores unsignaled,
\* images_in_flight one null entry per swapchain image, resized false; main
\* starts with destroying and minimized false.
AppInit ==
  /\ frame = 0
  /\ fence_signaled = [s \in Slots |-> TRUE]
  /\ image_available = [s \in Slots |-> FALSE]
  /\ render_finished = [s \in Slots |-> FALSE]
  /\ swapchain_images_len \in ImageCounts
  /\ images_in_flight = [k \in 1 .. swapchain_images_len |-> NullFence]
  /\ pending = << >>
  /\ alive = [r \in Resources |-> r = "messenger" => VALIDATION_ENABLED]
  /\ data_len = [l \in PerImageLists |-> swapchain_images_len]
  /\ pc = "idle"
  /\ image_index = 0
  /\ pos = 0
  /\ caller = "none"
  /\ recreate_result = "none"
  /\ tick = [NewTick EXCEPT !.result = "none"]
  /\ destroying = FALSE
  /\ minimized = FALSE
  /\ control_flow = "poll"
  /\ resized = FALSE
  /\ destroy_calls = "never"
  /\ since_resize = -1

\* main, line 32, is about to call App::create: AppData::default() holds
\* empty lists and no Vulkan object exists.
MainInit ==
  /\ frame = 0
  /\ fence_signaled = [s \in Slots |-> FALSE]
  /\ image_available = [s \in Slots |-> FALSE]
  /\ render_finished = [s \in Slots |-> FALSE]
  /\ swapchain_images_len = 0
  /\ images_in_flight = << >>
  /\ pending = << >>
  /\ alive = [r \in Resources |-> FALSE]
  /\ data_len = [l \in PerImageLists |-> 0]
  /\ pc = "app_create"
  /\ image_index = 0
  /\ pos = 1
  /\ caller = "none"
  /\ recreate_result = "none"
  /\ tick = [NewTick EXCEPT !.result = "none"]
  /\ destroying = FALSE
  /\ minimized = FALSE
  /\ control_flow = "poll"
  /\ resized = FALSE
  /\ destroy_calls = "never"
  /\ since_resize = -1

Init == MainInit /\ handles = 0 /\ call = NoCall

NextFrame_stuck(f) == f

\* (self.frame + 1) % MAX_FRAMES_IN_FLIGHT
NextFrame(f) == (f + 1) % MAX_FRAMES_IN_FLIGHT

Resize_kept(v, n, x) == v

\* Vec::resize(n, x): keep the first n entries, pad with x.
Resize(v, n, x) == [k \in 1 .. n |-> IF k <= Len(v) THEN v[k] ELSE x]

\* Sequence s without its k-th element.
RemoveAt(s, k) == [j \in 1 .. (Len(s) - 1) |-> IF j < k THEN s[j] ELSE s[j + 1]]

\* wait_for_fences(&[f], true, u64::MAX) returns Ok only once f is signaled.
FenceWaitReturns(f) == fence_signaled[FenceSlot(f)]

SlotFenceWait_skipped == TRUE

\* Line 86: the wait on the current slot's fence.
SlotFenceWait == FenceWaitReturns(InFlightFence(frame))

ImageWaitReturns_skipped(f) == TRUE

ImageWaitReturns_slot_only(f) == SlotFenceWait

\* Lines 89-91: a null table entry is not waited on.
ImageWaitReturns(f) == IF f = NullFence THEN TRUE ELSE FenceWaitReturns(f)

DeviceIdle_nowait == TRUE

\* device_wait_idle returns Ok only once no submitted work is outstanding.
DeviceIdle == pending = << >>

AcquireOutOfDate_ignored(r) == FALSE

\* Line 83: the Err(OUT_OF_DATE_KHR) arm of the match on the acquire result.
AcquireOutOfDate(r) == r = "ood"

PresentChanged_suboptimal_only(r) == r = "suboptimal"

\* Line 116: changed = result is Ok(SUBOPTIMAL_KHR) or Err(OUT_OF_DATE_KHR).
PresentChanged(r) == r \in {"suboptimal", "ood"}

\* Results of acquire_next_image_khr: Ok, Err(OUT_OF_DATE_KHR), another Err.
AcquireResults == {"ok", "ood", "err"}

\* Results of queue_present_khr: Ok(SUCCESS), Ok(SUBOPTIMAL_KHR),
\* Err(OUT_OF_DATE_KHR), another Err.
PresentResults == {"success", "suboptimal", "ood", "err"}

ReturnErr_swallowed(t) ==
  /\ tick' = [t EXCEPT !.result = "ok"]
  /\ pc' = "idle"
  /\ handles' = handles
  /\ image_index' = 0
  /\ caller' = "none"

\* What an Err of render does to the caller's position: main's unwrap() on
\* it panics and the process ends; a caller that handles it is back between
\* calls.
AfterErr == IF handles = 0 THEN "aborted" ELSE "idle"

\* The Errs the caller still handles once it has received one more.
HandlesLeft == IF handles = 0 THEN 0 ELSE handles - 1

\* render returns Err(..) to its caller.
ReturnErr(t) ==
  /\ tick' = [t EXCEPT !.result = "err"]
  /\ pc' = AfterErr
  /\ handles' = HandlesLeft
  /\ image_index' = 0
  /\ caller' = "none"

\* The call that failed in render call t was the one named site.
Failed(t, site) == [t EXCEPT !.failed = site]

RenderDue_while_minimized == ~destroying

\* main.rs line 43: MainEventsCleared if !destroying && !minimized.
RenderDue == ~destroying /\ ~minimized

\* render, lines 76-85: acquire_next_image_khr with the slot's semaphore,
\* issued before any fence is waited on.
Acquire ==
  /\ pc = "idle"
  /\ RenderDue
  /\ \E r \in AcquireResults :
       LET t == [NewTick EXCEPT !.acq_fence = fence_signaled[frame],
                                !.acquire = r, !.acquire_signal = frame] IN
       IF r = "ok"
       THEN /\ \E i \in 0 .. (swapchain_images_len - 1) : image_index' = i
            /\ image_available' = [image_available EXCEPT ![frame] = TRUE]
            /\ tick' = [t EXCEPT !.image = image_index']
            /\ pc' = "wait_fence"
            /\ UNCHANGED << caller, handles >>
       ELSE IF AcquireOutOfDate(r)
       THEN /\ tick' = t
            /\ pc' = "recreate"
            /\ caller' = "acquire"
            /\ UNCHANGED << image_index, image_available, handles >>
       ELSE /\ ReturnErr(Failed(t, "acquire"))
            /\ UNCHANGED image_available
  /\ UNCHANGED << frame, fence_signaled, render_finished, images_in_flight,
                  swapchain_images_len, pending, alive, data_len, pos, recreate_result,
                  hostVars, since_resize, call >>

\* render, line 86: wait for the current slot's fence.
WaitForFence ==
  /\ pc = "wait_fence"
  /\ \/ /\ SlotFenceWait
        /\ pc' = "wait_image"
        /\ UNCHANGED << image_index, caller, tick, handles >>
     \/ ReturnErr(Failed(tick, "wait_for_fences"))
  /\ UNCHANGED << frame, gpuVars, images_in_flight, swapchain_images_len,
                  alive, data_len, pos, recreate_result, hostVars, since_resize, call >>

\* render, lines 88-92: the image-in-use guard, then the table update.
\* Indexing images_in_flight out of range panics.
WaitImage ==
  /\ pc = "wait_image"
  /\ IF image_index >= Len(images_in_flight)
     THEN /\ pc' = "aborted"
          /\ tick' = [tick EXCEPT !.result = "panic"]
          /\ UNCHANGED << images_in_flight, image_index, caller, handles >>
     ELSE LET image_in_flight == images_in_flight[image_index + 1] IN
          \/ /\ ImageWaitReturns(image_in_flight)
             /\ images_in_flight' =
                  [images_in_flight EXCEPT ![image_index + 1] = InFlightFence(frame)]
             /\ tick' = [tick EXCEPT !.table_writes = @ + 1]
             /\ pc' = "update"
             /\ UNCHANGED << image_index, caller, handles >>
          \/ /\ image_in_flight # NullFence
             /\ ReturnErr(Failed(tick, "wait_for_image_fence"))
             /\ UNCHANGED images_in_flight
  /\ UNCHANGED << frame, gpuVars, swapchain_images_len, alive, data_len, pos,
                  recreate_result, hostVars, since_resize, call >>

\* Bytes of #[repr(C)] UniformBufferObject (camera.rs:10-21): three Mat4 of
\* sixteen f32, then Vec3, f32, Vec3, f32, Vec3, every f32 four bytes.
SizeOfUniformBufferObject == 3 * 16 * 4 + (3 + 1 + 3 + 1 + 3) * 4

\* Bytes of Camera (camera.rs:24-32): five f32 and one Vec3.
SizeOfCamera == 5 * 4 + 3 * 4

\* create_uniform_buffers, line 635: the size every uniform buffer is
\* created with.
UniformBufferSize == SizeOfCamera

\* UniformBufferObject::update, lines 65-69: the bytes mapped, and copied by
\* memcpy(self, memory.cast(), 1).
UniformMapSize == SizeOfUniformBufferObject

\* render, line 93: ubo.update maps the image's uniform-buffer memory,
\* copies the record and unmaps; map_memory may fail.
UpdateUniform ==
  /\ pc = "update"
  /\ \/ /\ tick' = [tick EXCEPT !.ubo_writes = @ + 1,
                                !.ubo_bytes = UniformMapSize,
                                !.ubo_image = image_index]
        /\ pc' = "submit"
        /\ UNCHANGED << image_index, caller, handles >>
     \/ ReturnErr(Failed(tick, "ubo_update"))
  /\ UNCHANGED << frame, gpuVars, images_in_flight, swapchain_images_len,
                  alive, data_len, pos, recreate_result, hostVars, since_resize, call >>

Submission_other_semaphore ==
  [ fence |-> InFlightFence(frame), image |-> image_index,
    wait |-> NextFrame(frame), signal |-> frame, presented |-> FALSE,
    command_buffer |-> image_index ]

Submission_first_command_buffer ==
  [ fence |-> InFlightFence(frame), image |-> image_index, wait |-> frame,
    signal |-> frame, presented |-> FALSE, command_buffer |-> 0 ]

\* The submission built at lines 96-104 and queued at line 107.
Submission ==
  [ fence |-> InFlightFence(frame), image |-> image_index, wait |-> frame,
    signal |-> frame, presented |-> FALSE, command_buffer |-> image_index ]

\* render, lines 106-107: reset the slot's fence, then queue_submit.
Submit ==
  /\ pc = "submit"
  /\ \/ /\ fence_signaled' = [fence_signaled EXCEPT ![frame] = FALSE]
        /\ pending' = Append(pending, Submission)
        /\ tick' = [tick EXCEPT !.fence_resets = @ + 1, !.submits = @ + 1,
                                !.submit_wait = Submission.wait,
                                !.submit_signal = Submission.signal,
                                !.command_buffer = Submission.command_buffer]
        /\ pc' = "present"
        /\ UNCHANGED << image_index, caller, handles >>
     \/ /\ ReturnErr(Failed(tick, "reset_fences"))
        /\ UNCHANGED << fence_signaled, pending >>
     \/ /\ fence_signaled' = [fence_signaled EXCEPT ![frame] = FALSE]
        /\ ReturnErr(Failed([tick EXCEPT !.fence_resets = @ + 1],
                            "queue_submit"))
        /\ UNCHANGED pending
  /\ UNCHANGED << frame, image_available, render_finished, images_in_flight,
                  swapchain_images_len, alive, data_len, pos, recreate_result, hostVars,
                  since_resize, call >>

\* Line 112: the present waits on signal_semaphores, the render-finished
\* semaphore of the current slot.
PresentWaitSemaphore == frame

\* Pending submissions whose signal semaphore the present of this tick waits on.
Unpresented == { k \in 1 .. Len(pending) :
                   /\ pending[k].signal = PresentWaitSemaphore
                   /\ ~pending[k].presented }

\* queue_present_khr queues a wait on the slot's render-finished semaphore:
\* it is consumed at once when already signaled, else when the submission
\* that signals it completes.
PresentWait ==
  IF Unpresented = {}
  THEN /\ render_finished' =
            [render_finished EXCEPT ![PresentWaitSemaphore] = FALSE]
       /\ UNCHANGED pending
  ELSE /\ \E k \in Unpresented :
            pending' = [pending EXCEPT ![k].presented = TRUE]
       /\ UNCHANGED render_finished

\* render, lines 109-123: present, then recreate, fail, or advance the slot.
Present ==
  /\ pc = "present"
  /\ \E r \in PresentResults :
       LET t == [tick EXCEPT !.present = r, !.presents = @ + 1,
                             !.present_wait = PresentWaitSemaphore] IN
       IF PresentChanged(r)
       THEN /\ PresentWait
            /\ tick' = t
            /\ pc' = "recreate"
            /\ caller' = "present"
            /\ UNCHANGED << frame, image_index, since_resize, handles >>
       ELSE IF r \in {"ood", "err"}
       THEN /\ ReturnErr(Failed(t, "present"))
            /\ UNCHANGED << frame, render_finished, pending, since_resize >>
       ELSE /\ PresentWait
            /\ tick' = [t EXCEPT !.result = "ok",
                                 !.since_resize = since_resize]
            /\ since_resize' = -1
            /\ frame' = NextFrame(frame)
            /\ pc' = "idle"
            /\ image_index' = 0
            /\ UNCHANGED << caller, handles >>
  /\ UNCHANGED << fence_signaled, image_available, images_in_flight,
                  swapchain_images_len, alive, data_len, pos, recreate_result, hostVars,
                  call >>

\* The GPU completes a submission whose wait semaphore is signaled: the wait
\* consumes that semaphore, the signal semaphore and the fence are signaled.
GpuComplete ==
  \E k \in 1 .. Len(pending) :
    /\ image_available[pending[k].wait]
    /\ image_available' = [image_available EXCEPT ![pending[k].wait] = FALSE]
    /\ render_finished' =
         [render_finished EXCEPT ![pending[k].signal] = ~pending[k].presented]
    /\ fence_signaled' =
         [fence_signaled EXCEPT ![FenceSlot(pending[k].fence)] = TRUE]
    /\ pending' = RemoveAt(pending, k)
    /\ UNCHANGED << frame, images_in_flight, swapchain_images_len, alive, data_len, pc,
                    image_index, pos, caller, recreate_result, tick, hostVars,
                    handles, since_resize, call >>

FrameAfterRecreate_always(res) == IF res = "ok" THEN NextFrame(frame) ELSE frame

\* App.frame once recreate_swapchain has returned res to render: line 83
\* returns at once, line 118 falls through to line 122 when res is Ok.
FrameAfterRecreate(res) ==
  IF caller = "present" /\ res = "ok" THEN NextFrame(frame) ELSE frame

\* recreate_swapchain returns res to its call site in render; render returns
\* it (line 83), propagates the Err (line 118) or returns Ok (line 123).
RecreateReturn(res, t) ==
  /\ recreate_result' = res
  /\ pc' = IF res = "ok" THEN "idle" ELSE AfterErr
  /\ handles' = IF res = "ok" THEN handles ELSE HandlesLeft
  /\ image_index' = 0
  /\ caller' = "none"
  /\ pos' = 0
  /\ frame' = FrameAfterRecreate(res)
  /\ tick' = IF res = "ok" THEN [t EXCEPT !.result = res]
             ELSE [t EXCEPT !.result = res, !.failed = "recreate_swapchain"]
  /\ since_resize' = IF res = "ok" /\ since_resize \in {0, 1}
                     THEN since_resize + 1
                     ELSE since_resize

\* recreate_swapchain, line 166: device_wait_idle()?
RecreateWaitIdle ==
  /\ pc = "recreate"
  /\ \/ /\ DeviceIdle
        /\ tick' = [tick EXCEPT !.recreations = @ + 1, !.idle = "ok",
                                !.old_len = swapchain_images_len]
        /\ pc' = "destroy"
        /\ pos' = 1
        /\ UNCHANGED << frame, image_index, caller, recreate_result,
                        since_resize, handles >>
     \/ RecreateReturn("err", [tick EXCEPT !.recreations = @ + 1,
                                           !.idle = "failed"])
  /\ UNCHANGED << gpuVars, images_in_flight, swapchain_images_len, alive, data_len,
                  hostVars, call >>

destroy_swapchain_with_fences ==
  << "depth_image_view", "depth_image_memory", "depth_image",
     "descriptor_pool", "uniform_buffers", "uniform_buffers_memory",
     "framebuffers", "command_buffers", "pipeline", "pipeline_layout",
     "render_pass", "swapchain_image_views", "in_flight_fences",
     "swapchain" >>

\* destroy_swapchain, lines 150-162, in statement order.
destroy_swapchain ==
  << "depth_image_view", "depth_image_memory", "depth_image",
     "descriptor_pool", "uniform_buffers", "uniform_buffers_memory",
     "framebuffers", "command_buffers", "pipeline", "pipeline_layout",
     "render_pass", "swapchain_image_views", "swapchain" >>

\* What one statement of a teardown takes away: a descriptor pool takes the
\* sets allocated from it along, and the call self.destroy_swapchain() of
\* App::destroy (line 129) every swapchain-dependent object.
Destroys(r) ==
  IF r = "descriptor_pool" THEN {"descriptor_pool", "descriptor_sets"}
  ELSE IF r = "destroy_swapchain()" THEN SwapchainResources
  ELSE {r}

\* One statement of destroy_swapchain.
DestroyStep ==
  /\ pc = "destroy"
  /\ alive' = [r \in Resources |->
                 alive[r] /\ r \notin Destroys(destroy_swapchain[pos])]
  /\ tick' = [tick EXCEPT !.destroyed = @ + 1]
  /\ IF pos = Len(destroy_swapchain)
     THEN pc' = "create" /\ pos' = 1
     ELSE pc' = pc /\ pos' = pos + 1
  /\ UNCHANGED << frame, gpuVars, images_in_flight, swapchain_images_len,
                  data_len, image_index, caller, recreate_result, hostVars,
                  handles, since_resize, call >>

Cleared_kept(n) == n

\* create_uniform_buffers, lines 629-630: Vec::clear.
Cleared(n) == 0

\* The lengths of the per-image lists once the create_* function that builds
\* object r has run: image views are mapped from swapchain_images,
\* framebuffers from the image views, uniform buffers are cleared and pushed
\* once per swapchain image, descriptor sets are allocated one per layout,
\* command buffers one per framebuffer.
Built(r) ==
  IF r = "swapchain_image_views"
  THEN [data_len EXCEPT ![r] = swapchain_images_len]
  ELSE IF r = "framebuffers"
  THEN [data_len EXCEPT ![r] = data_len["swapchain_image_views"]]
  ELSE IF r \in {"uniform_buffers", "uniform_buffers_memory"}
  THEN [data_len EXCEPT ![r] = Cleared(data_len[r]) + swapchain_images_len]
  ELSE IF r = "descriptor_sets"
  THEN [data_len EXCEPT ![r] = swapchain_images_len]
  ELSE IF r = "command_buffers"
  THEN [data_len EXCEPT ![r] = data_len["framebuffers"]]
  ELSE data_len

rebuild_with_layout ==
  << "swapchain", "swapchain_image_views", "render_pass",
     "descriptor_set_layout", "pipeline_layout", "pipeline", "depth_image",
     "depth_image_memory", "depth_image_view", "framebuffers",
     "uniform_buffers", "uniform_buffers_memory", "descriptor_pool",
     "descriptor_sets", "command_buffers" >>

\* recreate_swapchain, lines 168-177: the objects in the order the create_*
\* functions build them.
rebuild ==
  << "swapchain", "swapchain_image_views", "render_pass", "pipeline_layout",
     "pipeline", "depth_image", "depth_image_memory", "depth_image_view",
     "framebuffers", "uniform_buffers", "uniform_buffers_memory",
     "descriptor_pool", "descriptor_sets", "command_buffers" >>

\* One creation of the rebuild, which may fail; after the last one, line 178
\* resizes the per-image fence table and recreate_swapchain returns Ok.
CreateStep ==
  /\ pc = "create"
  /\ \/ /\ alive' = [alive EXCEPT ![rebuild[pos]] = TRUE]
        /\ data_len' = Built(rebuild[pos])
        /\ IF rebuild[pos] = "swapchain"
           THEN swapchain_images_len' \in ImageCounts
           ELSE UNCHANGED swapchain_images_len
        /\ IF pos = Len(rebuild)
           THEN /\ images_in_flight' =
                     Resize(images_in_flight, swapchain_images_len, NullFence)
                /\ RecreateReturn("ok", [tick EXCEPT
                                           !.built = @ \cup {rebuild[pos]}])
           ELSE /\ pos' = pos + 1
                /\ tick' = [tick EXCEPT !.built = @ \cup {rebuild[pos]}]
                /\ UNCHANGED << images_in_flight, frame, pc, image_index,
                                caller, recreate_result, since_resize,
                                handles >>
     \/ /\ RecreateReturn("err", tick)
        /\ UNCHANGED << alive, data_len, swapchain_images_len,
                        images_in_flight >>
  /\ UNCHANGED << gpuVars, hostVars, call >>

create_commands_first ==
  << "create_instance()", "surface", "device", "swapchain",
     "swapchain_image_views", "render_pass", "descriptor_set_layout",
     "pipeline_layout", "pipeline", "command_pool", "command_buffers",
     "depth_image", "depth_image_memory", "depth_image_view", "framebuffers",
     "Object::new()", "uniform_buffers", "uniform_buffers_memory",
     "descriptor_pool", "descriptor_sets", "create_sync_objects()" >>

\* App::create, lines 44-69, in statement order.
create ==
  << "create_instance()", "surface", "device", "swapchain",
     "swapchain_image_views", "render_pass", "descriptor_set_layout",
     "pipeline_layout", "pipeline", "command_pool", "depth_image",
     "depth_image_memory", "depth_image_view", "framebuffers",
     "Object::new()", "uniform_buffers", "uniform_buffers_memory",
     "descriptor_pool", "descriptor_sets", "command_buffers",
     "create_sync_objects()" >>

\* What Object::new creates for the object it loads: the buffers and
\* memories App::destroy reads from every Object (app.rs:131-136).
ObjectBuffers ==
  { "vertex_buffer", "vertex_buffer_memory", "index_buffer",
    "index_buffer_memory" }

\* What one statement of App::create brings into existence: create_instance
\* also creates the debug messenger in a validation build, the loop over
\* model_paths the vertex and index buffers of every object with their
\* memory, create_sync_objects the semaphores and fences of every slot.
Creates(r) ==
  IF r = "create_instance()"
  THEN {"instance"} \cup (IF VALIDATION_ENABLED THEN {"messenger"} ELSE {})
  ELSE IF r = "Object::new()"
  THEN ObjectBuffers
  ELSE IF r = "create_sync_objects()"
  THEN { "image_available_semaphores", "render_finished_semaphores",
         "in_flight_fences" }
  ELSE {r}

\* One statement of App::create, which may fail: main returns the error and
\* the process ends.  After the last one main enters the event loop.
AppCreateStep ==
  /\ pc = "app_create"
  /\ \/ /\ alive' = [r \in Resources |-> alive[r] \/ r \in Creates(create[pos])]
        /\ data_len' = Built(create[pos])
        /\ IF create[pos] = "swapchain"
           THEN swapchain_images_len' \in ImageCounts
           ELSE UNCHANGED swapchain_images_len
        /\ IF create[pos] = "create_sync_objects()"
           THEN /\ fence_signaled' = [s \in Slots |-> TRUE]
                /\ images_in_flight' =
                     [k \in 1 .. swapchain_images_len |-> NullFence]
           ELSE UNCHANGED << fence_signaled, images_in_flight >>
        /\ IF pos = Len(create)
           THEN pc' = "idle" /\ pos' = 0
           ELSE pc' = pc /\ pos' = pos + 1
     \/ /\ pc' = "create_failed"
        /\ UNCHANGED << alive, data_len, swapchain_images_len,
                        fence_signaled, images_in_flight, pos >>
  /\ UNCHANGED << frame, image_available, render_finished, pending,
                  image_index, caller, recreate_result, tick, hostVars,
                  handles, since_resize, call >>

(***************************************************************************)
(* The event loop of main (src/src/main.rs, lines 39-79).  winit calls the *)
(* closure once per event; a call runs to its end before the next event is *)
(* delivered, so events arrive only while the CPU is between calls.  After *)
(* the closure has set ControlFlow::Exit winit still delivers the events   *)
(* of the current iteration and then stops the loop.                       *)
(***************************************************************************)

\* WindowEvent::Resized, lines 54-61.
WindowResized ==
  /\ pc = "idle"
  /\ \E width, height \in WindowSizes :
       IF width = 0 \/ height = 0
       THEN /\ minimized' = TRUE
            /\ UNCHANGED << resized, since_resize >>
       ELSE /\ minimized' = FALSE
            /\ resized' = TRUE
            /\ since_resize' = 0
  /\ UNCHANGED << renderVars, gpuVars, pc, pos, destroying, control_flow,
                  destroy_calls, call >>

\* WindowEvent::CloseRequested, lines 47-49: destroying = true and
\* ControlFlow::Exit; the handler goes on to device_wait_idle.
CloseRequested ==
  /\ pc = "idle"
  /\ destroying' = TRUE
  /\ control_flow' = "exit"
  /\ pc' = "close"
  /\ UNCHANGED << renderVars, gpuVars, pos, minimized, resized,
                  destroy_calls, since_resize, call >>

\* Line 50: app.device().device_wait_idle().unwrap(), then line 51 enters
\* App::destroy.  On a device that has been destroyed the call is undefined:
\* it may return Ok or an error.
CloseWaitIdle ==
  /\ pc = "close"
  /\ \/ /\ IF alive["device"] THEN DeviceIdle ELSE TRUE
        /\ pc' = "app_destroy"
        /\ pos' = 1
        /\ destroy_calls' = IF destroy_calls = "never" THEN "once" ELSE "again"
     \/ /\ pc' = "aborted"
        /\ UNCHANGED << pos, destroy_calls >>
  /\ UNCHANGED << renderVars, gpuVars, destroying, minimized, control_flow,
                  resized, since_resize, call >>

\* App::destroy, lines 130-140: what was created from the device outside
\* the swapchain-dependent set.
destroy_device_objects ==
  << "descriptor_set_layout", "index_buffer", "index_buffer_memory",
     "vertex_buffer", "vertex_buffer_memory", "in_flight_fences",
     "render_finished_semaphores", "image_available_semaphores",
     "command_pool" >>

\* App::destroy, lines 141-146: the device, then the instance-level objects.
destroy_instance_objects ==
  << "device", "surface" >>
    \o (IF VALIDATION_ENABLED THEN << "messenger" >> ELSE << >>)
    \o << "instance" >>

destroy_device_first ==
  destroy_instance_objects \o << "destroy_swapchain()" >>
    \o destroy_device_objects

\* App::destroy, lines 129-146, in statement order.
destroy ==
  << "destroy_swapchain()" >> \o destroy_device_objects
    \o destroy_instance_objects

\* One statement of App::destroy; after the last one the handler returns.
AppDestroyStep ==
  /\ pc = "app_destroy"
  /\ alive' = [r \in Resources |->
                 alive[r] /\ r \notin Destroys(destroy[pos])]
  /\ IF pos = Len(destroy)
     THEN pc' = "idle" /\ pos' = 0
     ELSE pc' = pc /\ pos' = pos + 1
  /\ UNCHANGED << frame, gpuVars, images_in_flight, swapchain_images_len,
                  data_len, image_index, caller, recreate_result, tick,
                  hostVars, handles, since_resize, call >>

\* ControlFlow::Exit: winit stops the loop and the process ends.
LoopExit ==
  /\ pc = "idle"
  /\ control_flow = "exit"
  /\ pc' = "exited"
  /\ UNCHANGED << renderVars, gpuVars, pos, hostVars, since_resize, call >>

Next ==
  \/ AppCreateStep
  \/ WindowResized
  \/ CloseRequested
  \/ CloseWaitIdle
  \/ AppDestroyStep
  \/ LoopExit
  \/ Acquire
  \/ WaitForFence
  \/ WaitImage
  \/ UpdateUniform
  \/ Submit
  \/ Present
  \/ GpuComplete
  \/ RecreateWaitIdle
  \/ DestroyStep
  \/ CreateStep

Spec == Init /\ [][Next]_vars

(***************************************************************************)
(* The same App driven by a caller that handles the Err of a render call   *)
(* and goes on calling, where main unwraps it: render returns Result<()>   *)
(* (app.rs:75), so what follows an Err is the caller's choice.  The window  *)
(* is not resized; the caller closes as main does.                         *)
(***************************************************************************)

MaxHandled == 1

HandledInit == AppInit /\ handles = MaxHandled /\ call = NoCall

HandledNext ==
  \/ CloseRequested
  \/ CloseWaitIdle
  \/ AppDestroyStep
  \/ LoopExit
  \/ Acquire
  \/ WaitForFence
  \/ WaitImage
  \/ UpdateUniform
  \/ Submit
  \/ Present
  \/ GpuComplete
  \/ RecreateWaitIdle
  \/ DestroyStep
  \/ CreateStep

\* The GPU eventually completes a submitted command buffer whose wait
\* semaphore is signaled, and a wait whose fence is signaled returns
\* (wait_for_fences with timeout u64::MAX, app.rs:86 and 90).  The Err of a
\* wait is possible, never promised.
Fairness ==
  /\ WF_vars(GpuComplete)
  /\ WF_vars(WaitForFence /\ pc' = "wait_image")
  /\ WF_vars(WaitImage /\ pc' = "update")

HandledSpec == HandledInit /\ [][HandledNext]_vars /\ Fairness

(***************************************************************************)
(* Which objects hold a reference to which, read off the create_*          *)
(* functions of utils.rs: a pair << a, b >> says that object a was built   *)
(* from object b.                                                          *)
(***************************************************************************)

\* create_swapchain_image_views: one view per swapchain image.
ImageViewRefs == { << "swapchain_image_views", "swapchain" >> }

\* create_pipeline: the pipeline is built from its layout and the render pass.
PipelineRefs ==
  { << "pipeline", "pipeline_layout" >>, << "pipeline", "render_pass" >> }

\* create_depth_objects: the depth view is a view of the depth image.
DepthRefs == { << "depth_image_view", "depth_image" >> }

\* create_framebuffers: attachments [swapchain view i, depth view], render pass.
FramebufferRefs ==
  { << "framebuffers", "swapchain_image_views" >>,
    << "framebuffers", "depth_image_view" >>,
    << "framebuffers", "render_pass" >> }

\* create_descriptor_sets: allocated from the pool, written with the buffers.
DescriptorSetRefs ==
  { << "descriptor_sets", "descriptor_pool" >>,
    << "descriptor_sets", "uniform_buffers" >> }

\* create_pipeline, line 327, and create_descriptor_sets, line 659: the
\* pipeline layout and every descriptor set are built from
\* data.descriptor_set_layout.
LayoutRefs ==
  { << "pipeline_layout", "descriptor_set_layout" >>,
    << "descriptor_sets", "descriptor_set_layout" >> }

\* create_command_buffers: what each recorded command buffer names.
CommandBufferRefs ==
  { << "command_buffers", "render_pass" >>,
    << "command_buffers", "framebuffers" >>,
    << "command_buffers", "pipeline" >>,
    << "command_buffers", "pipeline_layout" >>,
    << "command_buffers", "descriptor_sets" >> }

\* create_command_buffers, lines 460-464 and 491-492: allocated from the
\* command pool, binding the vertex and the index buffer.
ModelBufferRefs ==
  { << "command_buffers", "command_pool" >>,
    << "command_buffers", "vertex_buffer" >>,
    << "command_buffers", "index_buffer" >> }

References ==
  ImageViewRefs \cup PipelineRefs \cup DepthRefs \cup FramebufferRefs
    \cup DescriptorSetRefs \cup CommandBufferRefs

\* A render call has returned (Ok or Err).
TickEnded == tick.result \in {"ok", "err"}

(***************************************************************************)
(* Helper functions of src/src/utils.rs, each examined on its own: the     *)
(* initial state holds one call with its arguments, the actions run it.    *)
(***************************************************************************)

\* Largest memory_type_count of the physical device.
MaxMemoryTypes == 3

\* Longest list of surface formats the surface reports.
MaxFormats == 3

\* Longest list of present modes the surface reports.
MaxPresentModes == 3

\* Sequences over S of length at most n.
SeqsUpTo(S, n) == UNION { [1 .. k -> S] : k \in 0 .. n }

\* Elements of sequence s.
Range(s) == { s[k] : k \in 1 .. Len(s) }

RECURSIVE Pow2(_)
\* 1 << i
Pow2(i) == IF i = 0 THEN 1 ELSE 2 * Pow2(i - 1)

\* vk::MemoryPropertyFlags bits the buffers and images ask for.
MemoryPropertyFlags == {"DEVICE_LOCAL", "HOST_VISIBLE"}

\* (requirements.memory_type_bits & (1 << i)) != 0
Suitable(memory_type_bits, i) == (memory_type_bits \div Pow2(i)) % 2 = 1

Contains_intersects(flags, properties) == flags \cap properties # {}

\* property_flags.contains(properties): every requested bit is set.
Contains(flags, properties) == properties \subseteq flags

RECURSIVE FindMemoryType(_, _)
\* (0..memory_type_count).find(..) from index i on; -1 when find gives None.
FindMemoryType(c, i) ==
  IF i >= Len(c.memory_types) THEN -1
  ELSE IF Suitable(c.memory_type_bits, i)
          /\ Contains(c.memory_types[i + 1], c.properties)
       THEN i
       ELSE FindMemoryType(c, i + 1)

\* Calls of get_memory_type_index: the device's memory types, the requested
\* flags and the requirement's type bitmask.
MemoryTypeCalls ==
  { [ fn |-> "get_memory_type_index", memory_types |-> t, properties |-> p,
      memory_type_bits |-> b, done |-> FALSE, ok |-> FALSE, index |-> -1 ] :
      t \in SeqsUpTo(SUBSET MemoryPropertyFlags, MaxMemoryTypes),
      p \in SUBSET MemoryPropertyFlags,
      b \in 0 .. (Pow2(MaxMemoryTypes) - 1) }

\* vk::SurfaceFormatKHR values a surface may report.
SurfaceFormats ==
  [ format : {"B8G8R8A8_SRGB", "B8G8R8A8_UNORM"},
    color_space : {"SRGB_NONLINEAR", "EXTENDED_SRGB_LINEAR"} ]

Preferred_format_only(fmt) == fmt.format = "B8G8R8A8_SRGB"

\* The closure of find in get_swapchain_surface_format.
Preferred(fmt) ==
  fmt.format = "B8G8R8A8_SRGB" /\ fmt.color_space = "SRGB_NONLINEAR"

RECURSIVE FindFormat(_, _)
\* formats.iter().cloned().find(..) from position k on; 0 when None.
FindFormat(formats, k) ==
  IF k > Len(formats) THEN 0
  ELSE IF Preferred(formats[k]) THEN k ELSE FindFormat(formats, k + 1)

\* Calls of get_swapchain_surface_format.
SurfaceFormatCalls ==
  { [ fn |-> "get_swapchain_surface_format", formats |-> f, done |-> FALSE,
      panicked |-> FALSE, chosen |-> 0 ] :
      f \in SeqsUpTo(SurfaceFormats, MaxFormats) }

\* vk::PresentModeKHR values.
PresentModes == {"IMMEDIATE", "MAILBOX", "FIFO", "FIFO_RELAXED"}

PresentModeFallback_immediate == "IMMEDIATE"

\* unwrap_or(vk::PresentModeKHR::FIFO)
PresentModeFallback == "FIFO"

RECURSIVE FindPresentMode(_, _)
\* present_modes.iter().cloned().find(|m| *m == MAILBOX) from position k on.
FindPresentMode(present_modes, k) ==
  IF k > Len(present_modes) THEN PresentModeFallback
  ELSE IF present_modes[k] = "MAILBOX" THEN present_modes[k]
       ELSE FindPresentMode(present_modes, k + 1)

\* Calls of get_swapchain_present_mode.
PresentModeCalls ==
  { [ fn |-> "get_swapchain_present_mode", present_modes |-> m,
      done |-> FALSE, mode |-> "none" ] :
      m \in SeqsUpTo(PresentModes, MaxPresentModes) }

\* vk::ImageLayout values.
ImageLayouts ==
  { "UNDEFINED", "TRANSFER_DST_OPTIMAL", "SHADER_READ_ONLY_OPTIMAL",
    "DEPTH_STENCIL_ATTACHMENT_OPTIMAL", "PRESENT_SRC_KHR" }

\* Depth formats create_depth_objects chooses among.
DepthFormats == {"D32_SFLOAT", "D32_SFLOAT_S8_UINT", "D24_UNORM_S8_UINT"}

SupportedTransition_any(old_layout, new_layout) == TRUE

\* The arms of the match in transition_image_layout that yield masks.
SupportedTransition(old_layout, new_layout) ==
  \/ old_layout = "UNDEFINED" /\ new_layout = "TRANSFER_DST_OPTIMAL"
  \/ old_layout = "TRANSFER_DST_OPTIMAL"
       /\ new_layout = "SHADER_READ_ONLY_OPTIMAL"
  \/ old_layout = "UNDEFINED"
       /\ new_layout = "DEPTH_STENCIL_ATTACHMENT_OPTIMAL"

\* transition_image_layout, lines 786-795: the barrier's aspect mask.
AspectMask(new_layout, format) ==
  IF new_layout = "DEPTH_STENCIL_ATTACHMENT_OPTIMAL"
  THEN IF format \in {"D32_SFLOAT_S8_UINT", "D24_UNORM_S8_UINT"}
       THEN {"DEPTH", "STENCIL"}
       ELSE {"COLOR"}
  ELSE {"COLOR"}

\* Calls of transition_image_layout.
TransitionCalls ==
  { [ fn |-> "transition_image_layout", old_layout |-> o, new_layout |-> n,
      format |-> f, at |-> "match", result |-> "none", allocated |-> 0,
      begun |-> 0, recorded |-> 0, submitted |-> 0, freed |-> 0,
      aspect_mask |-> {} ] :
      o \in ImageLayouts, n \in ImageLayouts, f \in DepthFormats }

\* Everything the helper calls leave alone.
appVars == << renderVars, gpuVars, pc, pos, hostVars, since_resize >>

(***************************************************************************)
(* The staged upload of create_index_buffer and create_vertex_buffer       *)
(* (utils.rs:535-590) with copy_buffer (592-600).  The copy is executed by *)
(* the GPU on its own once it has been submitted.                          *)
(***************************************************************************)

\* Lines 537-541 and 566-570: the staging buffer of both functions.
StagingUsage == {"TRANSFER_SRC"}

StagingProperties == {"HOST_COHERENT", "HOST_VISIBLE"}

\* Lines 548-552 and 577-581: usage of the destination buffer.
DestinationUsage(fn) ==
  IF fn = "create_index_buffer"
  THEN {"TRANSFER_DST", "INDEX_BUFFER"}
  ELSE {"VERTEX_BUFFER", "TRANSFER_DST"}

\* Lines 548-552 and 577-581: memory properties of the destination buffer.
DestinationProperties(fn) ==
  IF fn = "create_index_buffer"
  THEN {"DEVICE_LOCAL"}
  ELSE {"HOST_COHERENT", "HOST_VISIBLE"}

\* Calls of create_index_buffer and create_vertex_buffer.
UploadCalls ==
  { [ fn |-> f, at |-> "staging", result |-> "none", staging |-> "none",
      staging_memory |-> "none", staging_usage |-> {},
      staging_properties |-> {}, filled |-> FALSE, destination |-> "none",
      destination_usage |-> {}, destination_properties |-> {},
      command_buffer |-> "none", copy |-> "none", idle |-> FALSE,
      log |-> << >> ] :
      f \in {"create_index_buffer", "create_vertex_buffer"} }

Uploading == call.fn \in {"create_index_buffer", "create_vertex_buffer"}

\* A `?` of the upload returns the error; what exists stays as it is.
UploadErr == [call EXCEPT !.at = "done", !.result = "err"]

\* Lines 537-541, 566-570: create_buffer for the staging buffer.
UploadCreateStaging ==
  /\ Uploading
  /\ call.at = "staging"
  /\ \/ call' = [call EXCEPT !.staging = "alive", !.staging_memory = "alive",
                             !.staging_usage = StagingUsage,
                             !.staging_properties = StagingProperties,
                             !.at = "fill"]
     \/ call' = UploadErr
  /\ UNCHANGED appVars

\* Lines 543-546, 572-575: map the staging memory, memcpy, unmap.
UploadFill ==
  /\ Uploading
  /\ call.at = "fill"
  /\ \/ call' = [call EXCEPT !.filled = TRUE, !.at = "destination",
                             !.log = Append(@, "fill")]
     \/ call' = UploadErr
  /\ UNCHANGED appVars

\* Lines 548-552, 577-581: create_buffer for the destination buffer.
UploadCreateDestination ==
  /\ Uploading
  /\ call.at = "destination"
  /\ \/ call' = [call EXCEPT
                   !.destination = "alive",
                   !.destination_usage = DestinationUsage(call.fn),
                   !.destination_properties = DestinationProperties(call.fn),
                   !.at = "begin", !.log = Append(@, "create_destination")]
     \/ call' = UploadErr
  /\ UNCHANGED appVars

\* copy_buffer, line 595: begin_single_time_commands allocates a command
\* buffer and begins it; either call may fail.
UploadBegin ==
  /\ Uploading
  /\ call.at = "begin"
  /\ \/ call' = [call EXCEPT !.command_buffer = "recording", !.at = "record"]
     \/ call' = [UploadErr EXCEPT !.command_buffer = "allocated"]
     \/ call' = UploadErr
  /\ UNCHANGED appVars

\* copy_buffer, lines 596-597, and end_single_time_commands, line 834:
\* cmd_copy_buffer, then end_command_buffer, which may fail.
UploadRecordCopy ==
  /\ Uploading
  /\ call.at = "record"
  /\ \/ call' = [call EXCEPT !.command_buffer = "executable", !.at = "submit"]
     \/ call' = UploadErr
  /\ UNCHANGED appVars

\* end_single_time_commands, lines 835-837: queue_submit on the graphics
\* queue.
UploadSubmit ==
  /\ Uploading
  /\ call.at = "submit"
  /\ \/ call' = [call EXCEPT !.copy = "submitted", !.at = "wait",
                             !.log = Append(@, "submit_copy")]
     \/ call' = UploadErr
  /\ UNCHANGED appVars

\* The graphics queue executes the copy.
GpuCopy ==
  /\ Uploading
  /\ call.copy = "submitted"
  /\ call' = [call EXCEPT !.copy = "complete"]
  /\ UNCHANGED appVars

QueueWaitReturns_nowait(c) == TRUE

\* queue_wait_idle returns Ok once the queue has nothing left to execute.
QueueWaitReturns(c) == c.copy = "complete"

\* end_single_time_commands, line 838: queue_wait_idle(graphics_queue)?
UploadWaitIdle ==
  /\ Uploading
  /\ call.at = "wait"
  /\ \/ /\ QueueWaitReturns(call)
        /\ call' = [call EXCEPT !.idle = TRUE, !.at = "free",
                                !.log = Append(@, "queue_idle")]
     \/ call' = UploadErr
  /\ UNCHANGED appVars

\* end_single_time_commands, line 839: free_command_buffers.
UploadFreeCommands ==
  /\ Uploading
  /\ call.at = "free"
  /\ call' = [call EXCEPT !.command_buffer = "freed", !.at = "destroy_staging"]
  /\ UNCHANGED appVars

\* Lines 559 and 584: destroy_buffer(staging_buffer).
UploadDestroyStaging ==
  /\ Uploading
  /\ call.at = "destroy_staging"
  /\ call' = [call EXCEPT !.staging = "destroyed", !.at = "free_staging",
                          !.log = Append(@, "destroy_staging")]
  /\ UNCHANGED appVars

\* Lines 560 and 585: free_memory(staging_buffer_memory); the function
\* returns Ok.
UploadFreeStaging ==
  /\ Uploading
  /\ call.at = "free_staging"
  /\ call' = [call EXCEPT !.staging_memory = "freed", !.at = "done",
                          !.result = "ok",
                          !.log = Append(@, "free_staging_memory")]
  /\ UNCHANGED appVars

(***************************************************************************)
(* create_command_buffers (utils.rs:459-500): what is recorded into the    *)
(* command buffer of each swapchain image.  Objects are numbered from 1;   *)
(* data.vertex_buffer, data.index_buffer and data.indices hold what the    *)
(* latest upload left there, taken to be the buffers of the object loaded  *)
(* last (0 when no object was loaded).                                     *)
(***************************************************************************)

\* Largest number of model paths handed to App::create.
MaxObjects == 2

\* Lines 488-497: the commands recorded for framebuffer i with n objects
\* loaded.
RecordedCommands(i, n) ==
  << [cmd |-> "begin_render_pass", arg |-> i],
     [cmd |-> "bind_pipeline", arg |-> 0],
     [cmd |-> "bind_vertex_buffers", arg |-> n],
     [cmd |-> "bind_index_buffer", arg |-> n],
     [cmd |-> "bind_descriptor_sets", arg |-> i],
     [cmd |-> "draw_indexed", arg |-> n],
     [cmd |-> "end_render_pass", arg |-> 0] >>

\* Calls of create_command_buffers.
CommandBufferCalls ==
  { [ fn |-> "create_command_buffers", objects |-> n, framebuffers |-> k,
      done |-> FALSE, result |-> "none", command_buffers |-> << >> ] :
      n \in 0 .. MaxObjects, k \in 1 .. MaxImages }

\* create_command_buffers: one command buffer per framebuffer is allocated
\* (lines 460-464) and recorded (466-498); the allocation, begin and end may
\* fail.
CreateCommandBuffers ==
  /\ call.fn = "create_command_buffers"
  /\ ~call.done
  /\ \/ call' = [call EXCEPT !.done = TRUE, !.result = "err"]
     \/ call' = [call EXCEPT
                   !.done = TRUE, !.result = "ok",
                   !.command_buffers =
                      [i \in 1 .. call.framebuffers |->
                         RecordedCommands(i, call.objects)]]
  /\ UNCHANGED appVars

(***************************************************************************)
(* Vertex and load_model (src/src/model.rs).  An f32 is its bit pattern,   *)
(* written << sign bit, the other 31 bits >>; the patterns that occur are  *)
(* those of 0.0, -0.0, 1.0 and NaN.                                        *)
(***************************************************************************)

\* Largest number of indices in a loaded mesh.
MaxIndices == 3

\* The bit pattern of a quiet NaN, 0x7FC00000.
NaNBits == << 0, 1023 * Pow2(21) >>

\* The bit patterns of 0.0, -0.0 and 1.0 (0x3F800000).
Zero == << 0, 0 >>

NegZero == << 1, 0 >>

One == << 0, 127 * Pow2(23) >>

\* f32::is_nan: exponent all ones, mantissa not zero.
IsNaN(x) == x[2] > 255 * Pow2(23)

IsZero(x) == x[2] = 0

\* f32 ==: NaN equals nothing, 0.0 equals -0.0, otherwise the same pattern.
FloatEq(x, y) ==
  /\ ~IsNaN(x)
  /\ ~IsNaN(y)
  /\ (x = y \/ (IsZero(x) /\ IsZero(y)))

\* glm::Vec3 ==: componentwise.
Vec3Eq(u, v) == \A k \in 1 .. 3 : FloatEq(u[k], v[k])

\* impl PartialEq for Vertex, lines 20-24.
VertexEq(a, b) == Vec3Eq(a.pos, b.pos) /\ Vec3Eq(a.color, b.color)

\* impl Hash for Vertex, lines 28-40: what is fed to the hasher, the
\* to_bits() of the nine components in this order.  Two vertices hash alike
\* exactly when they feed the hasher the same words.
VertexHash(a) == a.pos \o a.color \o a.normal

\* Positions and normals found in a model file.
FilePositions ==
  { << Zero, Zero, Zero >>, << NegZero, Zero, Zero >>, << One, Zero, Zero >> }

FileNormals == { << Zero, Zero, One >>, << Zero, One, Zero >> }

\* Line 88: every loaded vertex is white.
White == << One, One, One >>

Black == << Zero, Zero, Zero >>

Vertices ==
  [ pos : FilePositions, color : {White, Black}, normal : FileNormals ]

\* Pairs of vertices put to == and to the hasher.
VertexCalls ==
  { [ fn |-> "vertex_eq_hash", a |-> a, b |-> b, done |-> FALSE,
      eq |-> FALSE, hash_a |-> << >>, hash_b |-> << >> ] :
      a \in Vertices, b \in Vertices }

\* What a HashMap keyed by Vertex does with a == b and the two hashes.
CompareVertices ==
  /\ call.fn = "vertex_eq_hash"
  /\ ~call.done
  /\ call' = [call EXCEPT !.done = TRUE, !.eq = VertexEq(call.a, call.b),
                          !.hash_a = VertexHash(call.a),
                          !.hash_b = VertexHash(call.b)]
  /\ UNCHANGED appVars

\* What the mesh holds for one index: the position at 3 * index and, when
\* 3 * index is inside mesh.normals, the normal there.
MeshEntries ==
  [ pos : FilePositions, normal : FileNormals, has_normal : {TRUE} ]
    \cup [ pos : {Black}, normal : {Black}, has_normal : {FALSE} ]

\* Calls of load_model: the mesh entries in the order of mesh.indices.
LoadModelCalls ==
  { [ fn |-> "load_model", mesh |-> m, next |-> 1, unique_vertices |-> {},
      vertices |-> << >>, indices |-> << >>, read |-> << >>,
      done |-> FALSE ] : m \in SeqsUpTo(MeshEntries, MaxIndices) }

\* HashMap::get, line 93: the values stored under a key that hashes like v
\* and compares equal to it.
MapGet(map, v) ==
  { e.value : e \in { x \in map : VertexHash(x.key) = VertexHash(v)
                                    /\ VertexEq(x.key, v) } }

\* Lines 77-101: one iteration of the loop over mesh.indices.  Indices count
\* from 0 as in the source; read keeps the vertex built for every index
\* pushed.
LoadModelIndex ==
  /\ call.fn = "load_model"
  /\ ~call.done
  /\ call.next <= Len(call.mesh)
  /\ LET entry == call.mesh[call.next]
         vertex == [ pos |-> entry.pos, color |-> White,
                     normal |-> entry.normal ]
         found == MapGet(call.unique_vertices, vertex) IN
       IF ~entry.has_normal
       THEN call' = [call EXCEPT !.next = @ + 1]
       ELSE IF found # {}
       THEN call' = [call EXCEPT
                       !.next = @ + 1,
                       !.indices = Append(@, CHOOSE i \in found : TRUE),
                       !.read = Append(@, vertex)]
       ELSE call' = [call EXCEPT
                       !.next = @ + 1,
                       !.unique_vertices =
                          @ \cup {[ key |-> vertex,
                                    value |-> Len(call.vertices) ]},
                       !.vertices = Append(@, vertex),
                       !.indices = Append(@, Len(call.vertices)),
                       !.read = Append(@, vertex)]
  /\ UNCHANGED appVars

\* Lines 105-110: max_val - min_val over every position component is zero
\* when no position holds 1.0 (and the array is not empty).
ZeroExtent(vertices) ==
  /\ Len(vertices) > 0
  /\ \A k \in 1 .. Len(vertices) : \A c \in 1 .. 3 : IsZero(vertices[k].pos[c])

\* Lines 111-116: every position component is divided by max_val - min_val,
\* which is 1.0 (nothing changes) or 0.0 (0.0 / 0.0 is NaN).
Normalized(vertices) ==
  IF ZeroExtent(vertices)
  THEN [ k \in 1 .. Len(vertices) |->
           [vertices[k] EXCEPT !.pos = << NaNBits, NaNBits, NaNBits >>] ]
  ELSE vertices

\* Lines 104-118: the positions are normalized and load_model returns.
LoadModelNormalize ==
  /\ call.fn = "load_model"
  /\ ~call.done
  /\ call.next > Len(call.mesh)
  /\ call' = [call EXCEPT !.done = TRUE,
                          !.vertices = Normalized(call.vertices)]
  /\ UNCHANGED appVars

(***************************************************************************)
(* Camera (src/src/camera.rs): yaw and pitch in degrees.  The deltas are   *)
(* the mouse movement already multiplied by the sensitivity, taken from    *)
(* whole degrees, which f32 adds and compares exactly.                     *)
(***************************************************************************)

\* Largest number of mouse-drag events delivered.
MaxEvents == 2

\* sensitivity * x_diff and sensitivity * y_diff of a CursorMoved event.
ScaledDeltas == {-360, -200, -1, 0, 1, 200, 360}

\* rotate, lines 104-109: the pitch is clamped.
ClampPitch(pitch) ==
  IF pitch > 89 THEN 89 ELSE IF pitch < -89 THEN -89 ELSE pitch

\* rotate, lines 110-115: yaw -= 360.0 above 180, yaw += -360.0 below -180.
WrapYaw(yaw) ==
  IF yaw > 180 THEN yaw - 360 ELSE IF yaw < -180 THEN yaw + (-360) ELSE yaw

\* Camera::new, lines 77-80: yaw 0, pitch -10, then handle_mouse(0.0, 0.0).
CameraCalls ==
  { [ fn |-> "handle_mouse", yaw |-> WrapYaw(0 + 0),
      pitch |-> ClampPitch(-10 + 0), events |-> 0, prev_yaw |-> 0,
      yaw_delta |-> 0 ] }

\* main, lines 63-70, App::handle_mouse and Camera::handle_mouse: a
\* CursorMoved event while dragging calls rotate with the scaled deltas.
HandleMouse ==
  /\ call.fn = "handle_mouse"
  /\ call.events < MaxEvents
  /\ \E yaw \in ScaledDeltas, pitch \in ScaledDeltas :
       call' = [call EXCEPT !.yaw = WrapYaw(call.yaw + yaw),
                            !.pitch = ClampPitch(call.pitch + pitch),
                            !.events = @ + 1, !.prev_yaw = call.yaw,
                            !.yaw_delta = yaw]
  /\ UNCHANGED appVars

UtilsInit ==
  /\ AppInit
  /\ handles = 0
  /\ swapchain_images_len = MaxImages
  /\ call \in MemoryTypeCalls \cup SurfaceFormatCalls \cup PresentModeCalls
                \cup TransitionCalls \cup UploadCalls \cup CommandBufferCalls
                \cup VertexCalls \cup LoadModelCalls \cup CameraCalls

\* get_memory_type_index, lines 602-613.
GetMemoryTypeIndex ==
  /\ call.fn = "get_memory_type_index"
  /\ ~call.done
  /\ LET i == FindMemoryType(call, 0) IN
       call' = [call EXCEPT !.done = TRUE, !.ok = (i # -1), !.index = i]
  /\ UNCHANGED appVars

\* get_swapchain_surface_format, lines 150-154: formats[0] on an empty list
\* panics.
GetSwapchainSurfaceFormat ==
  /\ call.fn = "get_swapchain_surface_format"
  /\ ~call.done
  /\ LET k == FindFormat(call.formats, 1) IN
       call' = IF k # 0 THEN [call EXCEPT !.done = TRUE, !.chosen = k]
               ELSE IF Len(call.formats) = 0
               THEN [call EXCEPT !.done = TRUE, !.panicked = TRUE]
               ELSE [call EXCEPT !.done = TRUE, !.chosen = 1]
  /\ UNCHANGED appVars

\* get_swapchain_present_mode, lines 156-160.
GetSwapchainPresentMode ==
  /\ call.fn = "get_swapchain_present_mode"
  /\ ~call.done
  /\ call' = [call EXCEPT !.done = TRUE,
                          !.mode = FindPresentMode(call.present_modes, 1)]
  /\ UNCHANGED appVars

\* transition_image_layout, lines 762-782: the match on the layout pair.
TransitionMatch ==
  /\ call.fn = "transition_image_layout"
  /\ call.at = "match"
  /\ call' = IF SupportedTransition(call.old_layout, call.new_layout)
             THEN [call EXCEPT !.at = "begin"]
             ELSE [call EXCEPT !.at = "done", !.result = "unsupported"]
  /\ UNCHANGED appVars

\* begin_single_time_commands, lines 822-831: allocate one command buffer,
\* begin recording; either call may fail.
BeginSingleTimeCommands ==
  /\ call.fn = "transition_image_layout"
  /\ call.at = "begin"
  /\ \/ call' = [call EXCEPT !.at = "done", !.result = "err"]
     \/ call' = [call EXCEPT !.allocated = @ + 1, !.at = "done",
                             !.result = "err"]
     \/ call' = [call EXCEPT !.allocated = @ + 1, !.begun = @ + 1,
                             !.at = "record"]
  /\ UNCHANGED appVars

\* transition_image_layout, lines 786-812: the barrier is recorded.
RecordBarrier ==
  /\ call.fn = "transition_image_layout"
  /\ call.at = "record"
  /\ call' = [call EXCEPT !.recorded = @ + 1, !.at = "end",
                          !.aspect_mask = AspectMask(call.new_layout,
                                                     call.format)]
  /\ UNCHANGED appVars

\* end_single_time_commands, lines 833-840: end, submit, wait for the queue,
\* free; the first three may fail.
EndSingleTimeCommands ==
  /\ call.fn = "transition_image_layout"
  /\ call.at = "end"
  /\ \/ call' = [call EXCEPT !.at = "done", !.result = "err"]
     \/ call' = [call EXCEPT !.submitted = @ + 1, !.at = "done",
                             !.result = "err"]
     \/ call' = [call EXCEPT !.submitted = @ + 1, !.freed = @ + 1,
                             !.at = "done", !.result = "ok"]
  /\ UNCHANGED appVars

UtilsNext ==
  \/ GetMemoryTypeIndex
  \/ GetSwapchainSurfaceFormat
  \/ GetSwapchainPresentMode
  \/ TransitionMatch
  \/ BeginSingleTimeCommands
  \/ RecordBarrier
  \/ EndSingleTimeCommands
  \/ UploadCreateStaging
  \/ UploadFill
  \/ UploadCreateDestination
  \/ UploadBegin
  \/ UploadRecordCopy
  \/ UploadSubmit
  \/ GpuCopy
  \/ UploadWaitIdle
  \/ UploadFreeCommands
  \/ UploadDestroyStaging
  \/ UploadFreeStaging
  \/ CreateCommandBuffers
  \/ CompareVertices
  \/ LoadModelIndex
  \/ LoadModelNormalize
  \/ HandleMouse

UtilsSpec == UtilsInit /\ [][UtilsNext]_vars

(***************************************************************************)
(* Claims                                                                  *)
(***************************************************************************)

\* C1: at most MAX_FRAMES_IN_FLIGHT submitted frames are incomplete on the
\* GPU at any moment, and no frame slot has two incomplete submissions (a
\* slot's submission is never issued while its previous one is unfinished).
C1_FramesInFlightBounded ==
  /\ Len(pending) <= MAX_FRAMES_IN_FLIGHT
  /\ \A j, k \in 1 .. Len(pending) :
       j # k => pending[j].fence # pending[k].fence

\* C1 witness: every slot has a frame in flight and the CPU is blocked on the
\* current slot's fence.
C1_Witness ==
  /\ Len(pending) = MAX_FRAMES_IN_FLIGHT
  /\ pc = "wait_fence"
  /\ ~fence_signaled[frame]

\* C2: no two incomplete submissions render into the same swapchain image:
\* when the command buffer of image i is submitted, every earlier submission
\* into image i has completed.
C2_ImageNotInUse ==
  \A j, k \in 1 .. Len(pending) :
    j # k => pending[j].image # pending[k].image

\* C2 witness: with more images than frame slots, the acquired image is
\* still being rendered into by the other slot and the guard blocks on it.
C2_Witness ==
  /\ pc = "wait_image"
  /\ swapchain_images_len > MAX_FRAMES_IN_FLIGHT
  /\ image_index < Len(images_in_flight)
  /\ images_in_flight[image_index + 1] \notin {NullFence, InFlightFence(frame)}
  /\ \E k \in 1 .. Len(pending) :
       /\ pending[k].image = image_index
       /\ pending[k].fence = images_in_flight[image_index + 1]

\* C3: acquire is never issued while the current slot's fence is unsignaled
\* (the CPU waits on the slot's fence before it acquires).
C3_WaitBeforeAcquire == tick.acquire # "none" => tick.acq_fence

\* C4 as stated: a tick that ended in a recreation leaves the frame index
\* unchanged, whichever call triggered the recreation.
C4_RecreateKeepsFrame ==
  (TickEnded /\ tick.recreations > 0) => frame = tick.start_frame

\* C4 amended: a recreation triggered by an out-of-date acquire leaves the
\* frame index unchanged; one triggered by a suboptimal or out-of-date
\* present advances it by one modulo MAX_FRAMES_IN_FLIGHT when the
\* recreation succeeds and leaves it unchanged when the recreation fails.
C4_RecreateFrameEffect ==
  (TickEnded /\ tick.recreations > 0) =>
    frame = IF tick.present \in {"suboptimal", "ood"} /\ tick.result = "ok"
            THEN (tick.start_frame + 1) % MAX_FRAMES_IN_FLIGHT
            ELSE tick.start_frame

\* C4 witness: a tick recreated after its present and advanced the slot.
C4_Witness ==
  /\ TickEnded
  /\ tick.recreations = 1
  /\ tick.present = "suboptimal"
  /\ tick.start_frame = 1
  /\ frame = 0

\* C5: a tick whose acquire succeeds and whose present returns plain success
\* performs no recreation, returns Ok and advances the frame index by one
\* modulo MAX_FRAMES_IN_FLIGHT.
C5_PlainTickAdvances ==
  (tick.acquire = "ok" /\ tick.present = "success") =>
    /\ tick.recreations = 0
    /\ tick.result = "ok"
    /\ frame = (tick.start_frame + 1) % MAX_FRAMES_IN_FLIGHT

\* C5 witness: the first tick after start-up took the frame index from 0 to 1.
C5_Witness ==
  /\ tick.present = "success"
  /\ tick.start_frame = 0
  /\ frame = 1
  /\ recreate_result = "none"
  /\ pc = "idle"

\* C6: after initial creation and after every successful recreate_swapchain
\* the per-image fence table has one entry per swapchain image.
C6_TableMatchesImages ==
  (pc \notin {"app_create", "create_failed", "destroy", "create"}
     /\ recreate_result \in {"none", "ok"}) =>
    Len(images_in_flight) = swapchain_images_len

\* C6 witness: a successful recreate that changed the image count.
C6_Witness ==
  /\ pc = "idle"
  /\ recreate_result = "ok"
  /\ tick.recreations = 1
  /\ tick.old_len < swapchain_images_len
  /\ \E k \in 1 .. Len(images_in_flight) : images_in_flight[k] # NullFence

\* C7: recreate_swapchain destroys nothing before device_wait_idle has
\* returned Ok: while objects are being destroyed no submitted command
\* buffer is incomplete, and a call whose idle wait failed has destroyed
\* nothing.
C7_IdleBeforeDestroy ==
  /\ pc = "destroy" => (pending = << >> /\ tick.idle = "ok")
  /\ tick.destroyed > 0 => tick.idle = "ok"
  /\ tick.idle = "failed" => tick.destroyed = 0

\* C7 witness: the tick submitted a frame, then waited for the device to go
\* idle, and is now tearing the swapchain down.
C7_Witness ==
  /\ pc = "destroy"
  /\ tick.submits = 1
  /\ tick.destroyed > 0

\* C8: during the teardown no object is destroyed while an object that
\* references it still exists.
C8_ReverseDependencyOrder ==
  pc = "destroy" =>
    \A p \in References : alive[p[1]] => alive[p[2]]

\* C9: a tick whose acquire reports out-of-date goes directly to the
\* recreation: no table update, uniform write, fence reset, submission or
\* present, and exactly one recreation by the time it returns.
C9_OutOfDateAcquireOnlyRecreates ==
  tick.acquire = "ood" =>
    /\ tick.table_writes = 0
    /\ tick.ubo_writes = 0
    /\ tick.fence_resets = 0
    /\ tick.submits = 0
    /\ tick.presents = 0
    /\ pc \notin {"wait_fence", "wait_image", "update", "submit", "present"}
    /\ TickEnded => tick.recreations = 1

\* C9 witness: such a tick has returned Ok after its recreation.
C9_Witness ==
  /\ tick.acquire = "ood"
  /\ tick.result = "ok"
  /\ tick.recreations = 1
  /\ pc = "idle"

\* C10: out-of-date on acquire, and suboptimal or out-of-date on present,
\* are not returned as errors: the tick performs exactly one recreation and
\* returns Ok when that recreation succeeds.
C10_RecoverableNotSurfaced ==
  (TickEnded /\ (tick.acquire = "ood" \/ tick.present \in {"suboptimal", "ood"})) =>
    /\ tick.recreations = 1
    /\ tick.result = (IF recreate_result = "ok" THEN "ok" ELSE "err")

\* C10 witness: present reported out-of-date and the tick returned Ok.
C10_Witness ==
  /\ tick.present = "ood"
  /\ tick.result = "ok"
  /\ recreate_result = "ok"
  /\ pc = "idle"

\* C11: a failure inside a render call other than the recoverable results
\* (another acquire error, a failed fence wait, uniform update, fence reset,
\* queue submit, another present error, a failed recreation) makes the call
\* return an error with the frame index where it was at entry; a failure
\* outside the recreation has triggered no recreation, and a failed
\* recreation is the single one a recoverable result had triggered.
C11_FailuresReturned ==
  tick.failed # "none" =>
    /\ tick.result = "err"
    /\ pc = "aborted"
    /\ frame = tick.start_frame
    /\ tick.failed # "recreate_swapchain" => tick.recreations = 0
    /\ tick.failed = "recreate_swapchain" =>
         /\ tick.recreations = 1
         /\ tick.acquire = "ood" \/ tick.present \in {"suboptimal", "ood"}

\* C11 witness: in slot 1 the submission went through and the present
\* returned an error other than out-of-date.
C11_Witness ==
  /\ tick.failed = "present"
  /\ tick.present = "err"
  /\ tick.submits = 1
  /\ tick.start_frame = 1
  /\ pc = "aborted"

\* Positions of the CPU inside a render call.
RenderPositions ==
  { "wait_fence", "wait_image", "update", "submit", "present", "recreate",
    "destroy", "create" }

\* C12: from a resize event with a zero width or height until the next
\* resize event with both dimensions non-zero the event loop starts no render
\* call, and the zero-size resize itself changes nothing but the minimized
\* flag: no error, no recreation, no object destroyed.
C12_NoRenderWhileMinimized ==
  [][ /\ minimized =>
           /\ tick' = tick
           /\ recreate_result' = recreate_result
           /\ pc' \notin RenderPositions
      /\ (minimized' /\ ~minimized) =>
           /\ pc' = pc
           /\ tick' = tick
           /\ alive' = alive
           /\ recreate_result' = recreate_result
           /\ resized' = resized ]_vars

\* C12 witness: the window was minimized while a frame was still in flight
\* and the loop has not been asked to close.
C12_Witness ==
  /\ minimized
  /\ ~destroying
  /\ pc = "idle"
  /\ tick.submits = 1
  /\ Len(pending) > 0

\* C13: after a resize event with both dimensions non-zero, exactly one
\* swapchain recreation has completed by the next present that returns
\* plain success, whatever acquire and present return in between.
C13_ResizeRecreatesOnce ==
  (tick.present = "success" /\ tick.since_resize # -1) =>
    tick.since_resize = 1

\* C14: on a close request the handler waits for the device to be idle
\* before App::destroy starts, App::destroy is entered at most once, and no
\* render call runs once App::destroy has been entered, whatever events
\* follow.
C14_CloseDestroysOnce ==
  /\ pc = "app_destroy" => pending = << >>
  /\ destroy_calls # "again"
  /\ destroy_calls # "never" => pc \notin RenderPositions

\* C15: within a render call the submission waits on the image-available
\* semaphore of the current slot, the one handed to the acquire of the same
\* call, and signals the slot's render-finished semaphore, and the present
\* waits on that same render-finished semaphore; every submission still on
\* the queue uses the semaphores of the slot whose fence it signals.
C15_SemaphoreChain ==
  /\ tick.submits > 0 =>
       /\ tick.acquire_signal = tick.start_frame
       /\ tick.submit_wait = tick.acquire_signal
       /\ tick.submit_signal = tick.start_frame
  /\ tick.presents > 0 => tick.present_wait = tick.submit_signal
  /\ \A k \in 1 .. Len(pending) :
       /\ pending[k].wait = FenceSlot(pending[k].fence)
       /\ pending[k].signal = FenceSlot(pending[k].fence)

\* C15 witness: slot 1's call has acquired, submitted and presented, and
\* its submission, not yet complete, carries the present's wait.
C15_Witness ==
  /\ tick.start_frame = 1
  /\ tick.presents = 1
  /\ tick.present_wait = 1
  /\ \E k \in 1 .. Len(pending) :
       /\ pending[k].fence = InFlightFence(1)
       /\ pending[k].presented

\* Indices of the memory types that call c may be given: the type's bit is
\* set in the requirement's bitmask and its flags include every requested
\* flag.
EligibleTypes(c) ==
  { i \in 0 .. (Len(c.memory_types) - 1) :
      /\ (c.memory_type_bits \div Pow2(i)) % 2 = 1
      /\ c.properties \subseteq c.memory_types[i + 1] }

\* C16: get_memory_type_index returns the lowest index whose bit is set in
\* the requirement's type bitmask and whose property flags are a superset
\* of the requested flags, and returns an error exactly when there is no
\* such index.
C16_LowestEligibleType ==
  (call.fn = "get_memory_type_index" /\ call.done) =>
    /\ call.ok <=> EligibleTypes(call) # {}
    /\ call.ok =>
         /\ call.index \in EligibleTypes(call)
         /\ \A i \in EligibleTypes(call) : call.index <= i

\* C16 witness: type 0 has its bit set but lacks a requested flag, types 1
\* and 2 are both eligible, and index 1 was returned.
C16_Witness ==
  /\ call.fn = "get_memory_type_index"
  /\ call.done
  /\ call.properties = {"DEVICE_LOCAL", "HOST_VISIBLE"}
  /\ call.memory_type_bits = 7
  /\ Len(call.memory_types) = 3
  /\ call.memory_types[1] = {"HOST_VISIBLE"}
  /\ EligibleTypes(call) = {1, 2}
  /\ call.index = 1

\* The pair get_swapchain_surface_format looks for.
PreferredFormat ==
  [ format |-> "B8G8R8A8_SRGB", color_space |-> "SRGB_NONLINEAR" ]

\* C17: over a non-empty candidate list get_swapchain_surface_format returns
\* (B8G8R8A8_SRGB, SRGB_NONLINEAR) whenever that pair occurs anywhere in the
\* list, whatever the order, and the first entry of the list otherwise.
C17_PreferredFormatElseFirst ==
  (call.fn = "get_swapchain_surface_format" /\ call.done
     /\ Len(call.formats) > 0) =>
    /\ ~call.panicked
    /\ call.chosen \in 1 .. Len(call.formats)
    /\ call.formats[call.chosen] =
         IF PreferredFormat \in Range(call.formats)
         THEN PreferredFormat
         ELSE call.formats[1]

\* C17 witness: the preferred pair is last, behind an entry with the same
\* format in another colour space, and was returned.
C17_Witness ==
  /\ call.fn = "get_swapchain_surface_format"
  /\ call.done
  /\ Len(call.formats) = 3
  /\ call.formats[1].format = "B8G8R8A8_SRGB"
  /\ call.formats[1].color_space = "EXTENDED_SRGB_LINEAR"
  /\ call.formats[3] = PreferredFormat
  /\ call.chosen = 3

\* C18: get_swapchain_present_mode returns MAILBOX whenever MAILBOX is among
\* the supported modes and FIFO otherwise; given that FIFO is among the
\* supported modes, the returned mode is one of them.
C18_MailboxElseFifo ==
  (call.fn = "get_swapchain_present_mode" /\ call.done) =>
    /\ call.mode = IF "MAILBOX" \in Range(call.present_modes)
                   THEN "MAILBOX"
                   ELSE "FIFO"
    /\ "FIFO" \in Range(call.present_modes) =>
         call.mode \in Range(call.present_modes)

\* C18 witness: FIFO is supported, MAILBOX is not, and FIFO was returned.
C18_Witness ==
  /\ call.fn = "get_swapchain_present_mode"
  /\ call.done
  /\ call.present_modes = << "IMMEDIATE", "FIFO_RELAXED", "FIFO" >>
  /\ call.mode = "FIFO"

\* The three layout pairs C19 names as supported.
NamedTransitions ==
  { << "UNDEFINED", "TRANSFER_DST_OPTIMAL" >>,
    << "TRANSFER_DST_OPTIMAL", "SHADER_READ_ONLY_OPTIMAL" >>,
    << "UNDEFINED", "DEPTH_STENCIL_ATTACHMENT_OPTIMAL" >> }

\* C19: for every (old, new) layout pair other than undefined to
\* transfer-destination, transfer-destination to shader-read-only and
\* undefined to depth-stencil-attachment, transition_image_layout returns
\* the unsupported-transition error, and no one-time command buffer is
\* allocated, recorded or submitted.
C19_UnsupportedTransitionRejected ==
  (call.fn = "transition_image_layout"
     /\ << call.old_layout, call.new_layout >> \notin NamedTransitions) =>
    /\ call.allocated = 0
    /\ call.begun = 0
    /\ call.recorded = 0
    /\ call.submitted = 0
    /\ call.at \in {"match", "done"}
    /\ call.at = "done" => call.result = "unsupported"

\* C19 witness: the reverse of a supported pair was asked for and rejected.
C19_Witness ==
  /\ call.fn = "transition_image_layout"
  /\ call.old_layout = "SHADER_READ_ONLY_OPTIMAL"
  /\ call.new_layout = "TRANSFER_DST_OPTIMAL"
  /\ call.at = "done"
  /\ call.result = "unsupported"
  /\ call.allocated = 0

\* Every object created from the logical device.
DeviceObjects ==
  Resources \ {"instance", "messenger", "surface", "device"}

\* The instance-level objects other than the device that exist in the build.
InstanceObjects ==
  {"surface", "instance"}
    \cup (IF VALIDATION_ENABLED THEN {"messenger"} ELSE {})

\* C20: the logical device is destroyed only after every object created
\* from it (the swapchain-dependent objects, the descriptor-set layout, the
\* model buffers and their memory, the fences, the semaphores, the command
\* pool); the surface, the debug messenger and the instance are destroyed
\* after the device, the instance last of all.
C20_DeviceAfterItsObjects ==
  /\ ~alive["device"] => \A r \in DeviceObjects : ~alive[r]
  /\ \A r \in InstanceObjects : ~alive[r] => ~alive["device"]
  /\ ~alive["instance"] => \A r \in Resources : ~alive[r]

\* C20 witness: App::destroy has just destroyed the device; the surface,
\* the messenger and the instance are still there.
C20_Witness ==
  /\ pc = "app_destroy"
  /\ destroy_calls = "once"
  /\ ~alive["device"]
  /\ alive["surface"]
  /\ alive["messenger"]
  /\ alive["instance"]
  /\ tick.submits = 1

\* create_buffer and create_image bind a freshly allocated memory to the
\* handle they return: the pairs << handle, memory >> kept in AppData.
MemoryBindings ==
  { << "depth_image", "depth_image_memory" >>,
    << "uniform_buffers", "uniform_buffers_memory" >>,
    << "index_buffer", "index_buffer_memory" >>,
    << "vertex_buffer", "vertex_buffer_memory" >> }

\* C21: in every teardown the handle of a buffer or image is destroyed
\* before the memory bound to it is freed, so no handle exists whose memory
\* is gone.
C21_HandleBeforeMemory ==
  pc \in {"destroy", "app_destroy"} =>
    \A b \in MemoryBindings : alive[b[1]] => alive[b[2]]

\* C22: whenever a complete set of swapchain-dependent objects exists (after
\* App::create has built it and after every successful recreate_swapchain),
\* the image views, framebuffers, uniform buffers, uniform-buffer memories,
\* descriptor sets and command buffers each hold exactly one element per
\* swapchain image: nothing is left over from the previous swapchain.
C22_OnePerImage ==
  (\A r \in SwapchainResources : alive[r]) =>
    \A l \in PerImageLists : data_len[l] = swapchain_images_len

\* C22 witness: a successful recreate_swapchain has replaced a swapchain by
\* one with fewer images.
C22_Witness ==
  /\ pc = "idle"
  /\ recreate_result = "ok"
  /\ tick.recreations = 1
  /\ tick.old_len > swapchain_images_len
  /\ \A r \in SwapchainResources : alive[r]
  /\ data_len["uniform_buffers"] = swapchain_images_len

\* C23: every per-image uniform buffer is created with the size of the
\* per-frame uniform record, so the per-frame update, which maps and copies
\* one whole record, never maps or writes more bytes than the buffer holds.
C23_UniformWriteFits ==
  tick.ubo_writes > 0 =>
    /\ UniformBufferSize = SizeOfUniformBufferObject
    /\ tick.ubo_bytes <= UniformBufferSize

\* The steps of a staged upload in the order the claim gives them.
UploadOrder ==
  << "fill", "create_destination", "submit_copy", "queue_idle",
     "destroy_staging", "free_staging_memory" >>

\* C24: in every staged upload the steps occur in this order: fill the
\* staging buffer, create the destination, submit the copy, wait until the
\* graphics queue is idle, then destroy the staging buffer and free its
\* memory.  The staging buffer is never destroyed before the copy has
\* completed, and the one-time command buffer is freed only after the queue
\* has gone idle.
C24_StagedUploadOrder ==
  Uploading =>
    /\ Len(call.log) <= Len(UploadOrder)
    /\ call.log = SubSeq(UploadOrder, 1, Len(call.log))
    /\ call.copy # "none" => (call.filled /\ call.destination = "alive")
    /\ call.staging = "destroyed" => (call.copy = "complete" /\ call.idle)
    /\ call.staging_memory = "freed" => call.staging = "destroyed"
    /\ call.command_buffer = "freed" => (call.copy = "complete" /\ call.idle)

\* C24 witness: an upload of vertex data has run to its end.
C24_Witness ==
  /\ call.fn = "create_vertex_buffer"
  /\ call.result = "ok"
  /\ call.log = UploadOrder
  /\ call.command_buffer = "freed"

\* C25: in the staged upload of vertex data and of index data the
\* destination buffer has transfer-destination usage plus its target usage
\* and is backed by device-local memory; only the staging buffer is
\* host-visible and host-coherent.
C25_DestinationDeviceLocal ==
  (Uploading /\ call.destination = "alive") =>
    /\ "TRANSFER_DST" \in call.destination_usage
    /\ (IF call.fn = "create_index_buffer" THEN "INDEX_BUFFER"
        ELSE "VERTEX_BUFFER") \in call.destination_usage
    /\ call.destination_properties = {"DEVICE_LOCAL"}
    /\ call.staging_properties = {"HOST_COHERENT", "HOST_VISIBLE"}

\* Positions of the draws in a recorded command buffer.
Draws(cmds) == { d \in 1 .. Len(cmds) : cmds[d].cmd = "draw_indexed" }

\* The buffer bound by the latest command named bind before position d
\* (0 when there is none).
BoundAt(cmds, bind, d) ==
  LET before == { b \in 1 .. (d - 1) : cmds[b].cmd = bind } IN
    IF before = {} THEN 0
    ELSE cmds[CHOOSE b \in before : \A c \in before : c <= b].arg

\* C26: the command buffer recorded for each swapchain image contains,
\* between begin-render-pass and end-render-pass, exactly one indexed draw
\* per loaded model object, each preceded by binding that object's own
\* vertex and index buffers, and binds the descriptor set of the same image
\* index.
C26_OneDrawPerObject ==
  (call.fn = "create_command_buffers" /\ call.result = "ok") =>
    \A i \in 1 .. call.framebuffers :
      LET cmds == call.command_buffers[i] IN
        /\ cmds[1] = [cmd |-> "begin_render_pass", arg |-> i]
        /\ cmds[Len(cmds)].cmd = "end_render_pass"
        /\ Cardinality(Draws(cmds)) = call.objects
        /\ \A o \in 1 .. call.objects :
             \E d \in Draws(cmds) :
               /\ cmds[d].arg = o
               /\ BoundAt(cmds, "bind_vertex_buffers", d) = o
               /\ BoundAt(cmds, "bind_index_buffer", d) = o
        /\ \A b \in 1 .. Len(cmds) :
             cmds[b].cmd = "bind_descriptor_sets" => cmds[b].arg = i
        /\ \E b \in 1 .. Len(cmds) : cmds[b].cmd = "bind_descriptor_sets"

\* Positions of the CPU inside a render call outside recreate_swapchain.
PlainPositions == {"wait_fence", "wait_image", "update", "submit", "present"}

\* C27: a step of a render call that does not enter recreate_swapchain
\* creates, records, frees or destroys no GPU object and leaves the host
\* flags alone.  It changes at most the frame index, the entry of the
\* per-image fence table that belongs to the acquired image, the signal
\* states of fences and semaphores and the contents of the acquired image's
\* uniform buffer, and the command buffer it submits is the one recorded for
\* the acquired image index.
C27_PlainTickEffect ==
  [][ ((pc \in PlainPositions \/ pc' \in PlainPositions)
         /\ pc' # "recreate") =>
        /\ alive' = alive
        /\ data_len' = data_len
        /\ swapchain_images_len' = swapchain_images_len
        /\ hostVars' = hostVars
        /\ frame' \in {frame, NextFrame(frame)}
        /\ Len(images_in_flight') = Len(images_in_flight)
        /\ \A k \in 1 .. Len(images_in_flight) :
             images_in_flight'[k] # images_in_flight[k] =>
               (k = tick.image + 1 /\ tick'.table_writes = 1)
        /\ tick'.ubo_writes > tick.ubo_writes =>
             (tick'.ubo_image = tick.image /\ tick'.ubo_writes = 1)
        /\ Len(pending') > Len(pending) =>
             pending'[Len(pending')].command_buffer = tick.image ]_vars

\* C27 witness: a render call that acquired the second image has returned
\* Ok without a recreation.
C27_Witness ==
  /\ pc = "idle"
  /\ tick.result = "ok"
  /\ tick.recreations = 0
  /\ tick.image = 1
  /\ tick.command_buffer = 1
  /\ tick.ubo_image = 1
  /\ tick.table_writes = 1
  /\ frame = NextFrame(tick.start_frame)

\* Positions of the CPU inside recreate_swapchain.
RecreatePositions == {"recreate", "destroy", "create"}

\* C28: recreate_swapchain leaves the descriptor-set layout, the per-slot
\* semaphores and fences, the command pool, the model vertex and index
\* buffers, the device and the surface as they are: throughout the call they
\* exist and none of them is created anew, so the pipeline layout and the
\* descriptor sets it rebuilds are built from the descriptor-set layout that
\* existed before the call.
C28_RecreateKeepsCore ==
  /\ pc \in RecreatePositions => \A r \in CoreResources : alive[r]
  /\ tick.built \cap CoreResources = {}
  /\ pc \in RecreatePositions =>
       \A p \in LayoutRefs : p[1] \in tick.built => alive[p[2]]

\* C28 witness: a recreate_swapchain has rebuilt the pipeline layout and the
\* descriptor sets and returned Ok.
C28_Witness ==
  /\ pc = "idle"
  /\ recreate_result = "ok"
  /\ tick.recreations = 1
  /\ {"pipeline_layout", "descriptor_sets"} \subseteq tick.built
  /\ \A r \in CoreResources : alive[r]

\* The fences create_sync_objects pushes, one per frame slot.
SlotFences == { InFlightFence(s) : s \in Slots }

\* C29: in every reachable state each entry of the per-image fence table is
\* null or one of the MAX_FRAMES_IN_FLIGHT fences of the frame slots, and
\* the table never holds a fence that has been destroyed.
C29_TableHoldsSlotFences ==
  \A k \in 1 .. Len(images_in_flight) :
    \/ images_in_flight[k] = NullFence
    \/ /\ images_in_flight[k] \in SlotFences
       /\ alive["in_flight_fences"]

\* C29, amended: each entry of the per-image fence table is always null or
\* one of the fences of the frame slots, and until App::destroy is called
\* every fence the table holds exists, also after a recreate that changes
\* the image count.
C29_TableHoldsSlotFencesUntilDestroy ==
  \A k \in 1 .. Len(images_in_flight) :
    \/ images_in_flight[k] = NullFence
    \/ /\ images_in_flight[k] \in SlotFences
       /\ destroy_calls = "never" => alive["in_flight_fences"]

\* C29 witness: after a successful recreate that shrank the swapchain the
\* table still holds the fence of a frame slot.
C29_Witness ==
  /\ pc = "idle"
  /\ destroy_calls = "never"
  /\ recreate_result = "ok"
  /\ tick.recreations = 1
  /\ tick.old_len > swapchain_images_len
  /\ \E k \in 1 .. Len(images_in_flight) : images_in_flight[k] \in SlotFences

\* Every pair << a, b >> where the creation of a names b.
Dependencies == References \cup LayoutRefs \cup ModelBufferRefs

\* C30: in App::create and in recreate_swapchain every object is created
\* only after every object it references exists in its current incarnation:
\* while either runs, an object that exists has all the objects it was built
\* from, and during a rebuild every swapchain-dependent object that exists
\* was built by that rebuild.
C30_CreatedAfterReferenced ==
  /\ pc \in {"app_create", "create"} =>
       \A p \in Dependencies : alive[p[1]] => alive[p[2]]
  /\ pc = "create" =>
       \A r \in SwapchainResources : alive[r] => r \in tick.built

\* C30 witness: App::create has recorded the command buffers and has the
\* synchronisation objects still to create.
C30_Witness ==
  /\ pc = "app_create"
  /\ alive["command_buffers"]
  /\ alive["vertex_buffer"]
  /\ alive["pipeline"]
  /\ ~alive["in_flight_fences"]

\* C31: Vertex equality and hashing are consistent: two vertices that
\* compare equal produce the same hash, so a hash map keyed by Vertex finds
\* an equal vertex that was inserted before.
C31_EqualVerticesHashAlike ==
  (call.fn = "vertex_eq_hash" /\ call.done) =>
    (call.eq => call.hash_a = call.hash_b)

\* C32: after load_model the vertex array holds no two vertices that
\* compare equal, and every emitted index is a position of the vertex array
\* whose vertex equals the one read from the file for that index.
C32_UniqueVerticesValidIndices ==
  (call.fn = "load_model" /\ call.next > Len(call.mesh)) =>
    /\ \A j, k \in 1 .. Len(call.vertices) :
         j # k => ~VertexEq(call.vertices[j], call.vertices[k])
    /\ \A n \in 1 .. Len(call.indices) :
         /\ call.indices[n] \in 0 .. (Len(call.vertices) - 1)
         /\ ~call.done =>
              VertexEq(call.vertices[call.indices[n] + 1], call.read[n])

\* C37: after any sequence of mouse-drag events the pitch of the camera is
\* within [-89, 89] degrees, and every event whose scaled horizontal delta is
\* at most 360 degrees in magnitude and that found the yaw within
\* [-180, 180] leaves the yaw within [-180, 180].
C37_PitchClampedYawWrapped ==
  call.fn = "handle_mouse" =>
    /\ call.pitch \in -89 .. 89
    /\ (call.prev_yaw \in -180 .. 180 /\ call.yaw_delta \in -360 .. 360) =>
         call.yaw \in -180 .. 180

\* C34: whenever render passes the image-available semaphore of the current
\* slot to acquire, that semaphore is unsignaled and no submitted command
\* buffer that waits on it is still pending.
C34_AcquireSemaphoreFree ==
  [][ (pc = "idle" /\ tick' # tick) =>
        /\ ~image_available[frame]
        /\ \A k \in 1 .. Len(pending) : pending[k].wait # frame ]_vars

\* C35: whenever the CPU writes the per-frame record into the uniform buffer
\* of image i, no submitted command buffer that reads that uniform buffer
\* (the command buffer of image i) is still incomplete on the GPU; the buffer
\* written is the one of the acquired image.
C35_UniformWriteAfterImageIdle ==
  /\ pc = "update" =>
       \A k \in 1 .. Len(pending) : pending[k].command_buffer # image_index
  /\ (pc = "submit" /\ tick.ubo_writes = 1) => tick.ubo_image = image_index

\* C35 witness: the record of the acquired image has been written while the
\* other slot's frame, drawn with another image's command buffer, is still
\* executing on the GPU.
C35_Witness ==
  /\ pc = "submit"
  /\ tick.ubo_writes = 1
  /\ tick.ubo_image = image_index
  /\ swapchain_images_len > MAX_FRAMES_IN_FLIGHT
  /\ \E k \in 1 .. Len(pending) :
       /\ pending[k].fence # InFlightFence(frame)
       /\ pending[k].command_buffer # image_index

\* C33: assuming the GPU eventually completes every submitted command
\* buffer, neither the wait on the current slot's fence nor the wait on the
\* per-image fence blocks forever, for any sequence of render calls,
\* including calls that follow a recreation or a call that returned an
\* error after it had reset the slot's fence.
C33_FenceWaitsReturn ==
  /\ (pc = "wait_fence") ~> (pc # "wait_fence")
  /\ (pc = "wait_image") ~> (pc # "wait_image")

\* The handles one statement of a teardown passes to a destroy or free call.
Destroyed(r) ==
  IF r = "destroy_swapchain()" THEN Range(destroy_swapchain) ELSE {r}

\* C36: over any sequence of render, recreate_swapchain and destroy calls,
\* including a recreate that fails part-way through its rebuild, no handle
\* is destroyed twice (every handle a teardown statement is about to destroy
\* exists) and no handle is passed to an API call after it was destroyed
\* (the swapchain and the semaphore given to acquire, the fences waited on,
\* the command buffers submitted, the swapchain presented to, the device
\* waited on).
C36_NoDoubleDestroyNoUseAfterDestroy ==
  /\ pc = "destroy" => alive[destroy_swapchain[pos]]
  /\ pc = "app_destroy" => \A r \in Destroyed(destroy[pos]) : alive[r]
  /\ pc = "wait_fence" =>
       alive["swapchain"] /\ alive["image_available_semaphores"]
  /\ pc = "wait_image" => alive["in_flight_fences"]
  /\ pc = "present" => alive["command_buffers"] /\ alive["swapchain"]
  /\ pc \in {"close", "destroy"} => alive["device"]
====
